---- MODULE Spec2Model ----
(***************************************************************************)
(* AdBlast AI backend (src/app.py): the POST /generate_ads handler, the    *)
(* copy generator around the chat-completion call and the image            *)
(* synthesizer around the image-generation call.                           *)
(*                                                                         *)
(* Text is a sequence of one-character strings.  A JSON object literal of  *)
(* the upstream answer is one symbol of the text ("A", "B", ...), whose    *)
(* value Literal gives; brackets, commas, whitespace, back-ticks and       *)
(* letters are characters of their own.                                    *)
(***************************************************************************)
EXTENDS Integers, Sequences, FiniteSets, TLC

VARIABLES apiKey, body, pc, brief, upstream, drafts, ads, idx, calls, response

vars == <<apiKey, body, pc, brief, upstream, drafts, ads, idx, calls, response>>

(***************************************************************************)
(* Bounds of the model.                                                    *)
(***************************************************************************)
\* longest array the text model answers with
MaxAds == 3
\* by how many characters an over-long upstream field exceeds its limit
Excess == 1
\* longest array the text model answers with inside a markdown fence
MaxFenced == 2

(***************************************************************************)
(* Values.                                                                 *)
(***************************************************************************)
Min(a, b) == IF a < b THEN a ELSE b

Rep(c, n) == [k \in 1..n |-> c]

\* a JSON value held in a field of an object: text, list, number, null, bool
JStr(s) == [t |-> "str", s |-> s]
JList(s) == [t |-> "list", s |-> s]
JNum == [t |-> "num", s |-> <<>>]
JNull == [t |-> "null", s |-> <<>>]
JTrue == [t |-> "true", s |-> <<>>]
JFalse == [t |-> "false", s |-> <<>>]

\* Python's None as the value of image_url
None == JNull

\* a JSON document or array element: array, object (a dict), number, null, text
EmptyDict == <<>>
JArr(items) == [t |-> "arr", f |-> EmptyDict, items |-> items]
JObj(f) == [t |-> "obj", f |-> f, items |-> <<>>]
JNumber == [t |-> "num", f |-> EmptyDict, items |-> <<>>]
JNone == [t |-> "null", f |-> EmptyDict, items |-> <<>>]
JKey == [t |-> "str", f |-> EmptyDict, items |-> <<>>]

\* Python truthiness of a field value
Truthy(v) ==
    CASE v.t = "str" -> Len(v.s) > 0
      [] v.t = "list" -> Len(v.s) > 0
      [] v.t = "num" -> TRUE
      [] v.t = "true" -> TRUE
      [] OTHER -> FALSE

\* Python truthiness of a document: None, {}, [] are falsy, the number 5 is not
TruthyDoc(d) ==
    CASE d.t = "arr" -> Len(d.items) > 0
      [] d.t = "obj" -> DOMAIN d.f # {}
      [] d.t = "num" -> TRUE
      [] OTHER -> FALSE

\* dict.get(key, default)
Get(d, key, default) == IF key \in DOMAIN d THEN d[key] ELSE default

\* the key is left in the dict
DelForgotten(d, key) == d

\* del d[key]
Del(d, key) == [k \in (DOMAIN d) \ {key} |-> d[k]]

\* d[key] = v
Put(d, key, v) == (key :> v) @@ d

(***************************************************************************)
(* Character limits and the validation of the upstream drafts.             *)
(***************************************************************************)
CHAR_LIMITS == [titulo |-> 40, descricao |-> 250, cta |-> 20]

\* value[:n] of a text or a list; a number or null cannot be sliced
Sliceable(v) == v.t \in {"str", "list"}

Slice(v, n) == [t |-> v.t, s |-> SubSeq(v.s, 1, Min(n, Len(v.s)))]

AdKeys == <<"titulo", "descricao", "cta", "image_prompt">>

Limit(key) == IF key = "image_prompt" THEN 200 ELSE CHAR_LIMITS[key]

\* the dict built for one draft, lines 67-72
ValidateAd(ad) ==
    [key \in {AdKeys[k] : k \in DOMAIN AdKeys} |->
        Slice(Get(ad, key, JStr(<<>>)), Limit(key))]

\* the exception one element raises in lines 67-72, "none" if it raises none
ElementError(e) ==
    IF e.t # "obj" THEN "AttributeError"
    ELSE IF \E k \in DOMAIN AdKeys : ~Sliceable(Get(e.f, AdKeys[k], JStr(<<>>)))
         THEN "TypeError"
         ELSE "none"

\* what `for ad in ads` iterates over: the items of an array, the keys of a dict
Elements(doc) ==
    IF doc.t = "arr" THEN doc.items
    ELSE [k \in 1..Cardinality(DOMAIN doc.f) |-> JKey]

\* validate_and_truncate_ads: the validated list, or the exception raised
validate_and_truncate_ads(doc) ==
    IF doc.t \notin {"arr", "obj"}
    THEN [err |-> "TypeError", ads |-> <<>>]
    ELSE LET es == Elements(doc)
             bad == {k \in DOMAIN es : ElementError(es[k]) # "none"}
         IN IF bad # {}
            THEN [err |-> ElementError(es[CHOOSE k \in bad : \A m \in bad : k <= m]),
                  ads |-> <<>>]
            ELSE [err |-> "none", ads |-> [k \in DOMAIN es |-> ValidateAd(es[k].f)]]

(***************************************************************************)
(* The upstream answer as text: stripping, fences, json.loads.             *)
(***************************************************************************)
Whitespace == {" ", "\n"}

\* the text is used as it came
StripForgotten(s) == s

\* str.strip()
Strip(s) ==
    LET keep == {k \in DOMAIN s : s[k] \notin Whitespace}
    IN IF keep = {} THEN <<>>
       ELSE SubSeq(s, CHOOSE k \in keep : \A m \in keep : k <= m,
                      CHOOSE k \in keep : \A m \in keep : k >= m)

StartsWith(s, p) == Len(s) >= Len(p) /\ SubSeq(s, 1, Len(p)) = p

EndsWith(s, p) == Len(s) >= Len(p) /\ SubSeq(s, Len(s) - Len(p) + 1, Len(s)) = p

\* the back-tick character (a TLA+ string cannot hold one)
Tick == "tick"

Fence == <<Tick, Tick, Tick>>

FenceJson == Fence \o <<"j", "s", "o", "n">>

\* the markers dropped without the test for the "json" tag of the opening one
RemoveFenceUntagged(content) ==
    LET t0 == Strip(content)
        t1 == IF StartsWith(t0, Fence) THEN SubSeq(t0, 4, Len(t0)) ELSE t0
        t2 == IF EndsWith(t1, Fence) THEN SubSeq(t1, 1, Len(t1) - 3) ELSE t1
    IN Strip(t2)

\* lines 151-161: strip, drop the opening and closing markdown markers, strip
RemoveFence(content) ==
    LET t0 == Strip(content)
        t1 == IF StartsWith(t0, FenceJson) THEN SubSeq(t0, 8, Len(t0)) ELSE t0
        t2 == IF StartsWith(t1, Fence) THEN SubSeq(t1, 4, Len(t1)) ELSE t1
        t3 == IF EndsWith(t2, Fence) THEN SubSeq(t2, 1, Len(t2) - 3) ELSE t2
    IN Strip(t3)

\* the drafts the object literals of the upstream text stand for
ShortAd ==
    [titulo |-> JStr(<<"t">>), descricao |-> JStr(<<"d", "e">>),
     cta |-> JStr(<<"c">>), image_prompt |-> JStr(<<"p">>)]

LongAd ==
    [titulo |-> JStr(Rep("T", CHAR_LIMITS.titulo + Excess)),
     descricao |-> JStr(Rep("D", CHAR_LIMITS.descricao + Excess)),
     cta |-> JStr(Rep("C", CHAR_LIMITS.cta + Excess)),
     image_prompt |-> JStr(Rep("P", 200 + Excess))]

PartialAd ==
    [titulo |-> JStr(Rep("t", CHAR_LIMITS.titulo)), image_prompt |-> JStr(<<>>)]

ListAd ==
    [titulo |-> JList(<<"t", "u">>), descricao |-> JStr(<<"d">>),
     cta |-> JStr(<<"c">>), image_prompt |-> JStr(<<"q">>)]

NullAd ==
    [titulo |-> JNull, descricao |-> JStr(<<"d">>),
     cta |-> JStr(<<"c">>), image_prompt |-> JStr(<<"p">>)]

Literal ==
    [A |-> JObj(ShortAd), B |-> JObj(LongAd), C |-> JObj(PartialAd),
     E |-> JObj(EmptyDict), L |-> JObj(ListAd), N |-> JObj(NullAd),
     Z |-> JNumber]

LiteralSymbols == DOMAIN Literal

\* json.loads: a literal, or an array of literals separated by commas, with
\* whitespace anywhere between the tokens; anything else is a JSONDecodeError
NoSpace(c) == c \notin Whitespace

json_loads(text) ==
    LET toks == SelectSeq(text, NoSpace)
        n == Len(toks)
        inner == SubSeq(toks, 2, n - 1)
        m == Len(inner)
    IN IF n = 1 /\ toks[1] \in LiteralSymbols
       THEN [ok |-> TRUE, doc |-> Literal[toks[1]]]
       ELSE IF /\ n >= 2 /\ toks[1] = "[" /\ toks[n] = "]"
               /\ (m = 0 \/ m % 2 = 1)
               /\ \A k \in 1..m : IF k % 2 = 1 THEN inner[k] \in LiteralSymbols
                                               ELSE inner[k] = ","
            THEN [ok |-> TRUE,
                  doc |-> JArr([k \in 1..((m + 1) \div 2) |-> Literal[inner[2 * k - 1]]])]
            ELSE [ok |-> FALSE, doc |-> JNone]


(***************************************************************************)
(* The copy generator, generate_ads_with_openai.                           *)
(***************************************************************************)
\* the user prompt of lines 127-138, from the brief
UserPrompt(oferta, cliente, nicho, estilo_visual) ==
    <<"Gere 5 variações de anúncios para: OFERTA PRINCIPAL: ">> \o oferta
        \o <<" CLIENTE/EMPRESA: ">> \o cliente
        \o <<" NICHO/PÚBLICO-ALVO: ">> \o nicho
        \o (IF Len(estilo_visual) > 0
            THEN <<" ESTILO VISUAL DESEJADO: ">> \o estilo_visual ELSE <<>>)
        \o <<" Lembre-se: ...">>

\* lines 140-170 for one outcome of the chat-completion call: the drafts, or
\* the exception the function raises (ValueError for a JSONDecodeError,
\* Exception for anything else) with its message
generate_ads_with_openai(up) ==
    IF up.kind = "error"
    THEN [raised |-> "Exception",
          msg |-> <<"Erro na comunicação com a API: ", "APIError">>, ads |-> <<>>]
    ELSE LET parsed == json_loads(RemoveFence(up.content))
         IN IF ~parsed.ok
            THEN [raised |-> "ValueError",
                  msg |-> <<"Erro ao processar resposta da IA: ", "JSONDecodeError">>,
                  ads |-> <<>>]
            ELSE LET v == validate_and_truncate_ads(parsed.doc)
                 IN IF v.err # "none"
                    THEN [raised |-> "Exception",
                          msg |-> <<"Erro na comunicação com a API: ", v.err>>,
                          ads |-> <<>>]
                    ELSE [raised |-> "none", msg |-> <<>>, ads |-> v.ads]

(***************************************************************************)
(* The image synthesizer, generate_image_with_dalle.                       *)
(***************************************************************************)
\* lines 91-96: the prompt sent to the image model
FullPrompt(prompt, style) ==
    <<"Create a professional advertising image: ">> \o prompt
        \o (IF Len(style) > 0 THEN <<",", " ">> \o style \o <<" style">> ELSE <<>>)
        \o <<". High quality, suitable for social media ads, no text overlay.">>

\* what the image-generation call does: it returns a URL or it raises
ImageOutcomes == {[ok |-> TRUE, url |-> <<"u">>], [ok |-> FALSE, url |-> <<>>]}

\* the URL field read whether or not the call raised
generate_image_unguarded(outcome) == JStr(outcome.url)

\* lines 89-110: the URL, or None when anything was raised
generate_image_with_dalle(outcome) ==
    IF outcome.ok THEN JStr(outcome.url) ELSE None

(***************************************************************************)
(* Requests.                                                               *)
(***************************************************************************)
Missing == [t |-> "missing", s |-> <<>>]

\* the JSON object of a request body, from the value given for each key
BodyObject(o, c, n, e, g) ==
    LET given == [oferta |-> o, cliente |-> c, nicho |-> n,
                  estilo_visual |-> e, generate_images |-> g]
    IN JObj([k \in {x \in DOMAIN given : given[x] # Missing} |-> given[k]])

RequiredValues(word) ==
    {Missing, JStr(<<>>), JStr(<<" ">>), JStr(word), JNum}

Bodies ==
    {[kind |-> "json", doc |-> BodyObject(o, c, n, e, g)] :
        o \in RequiredValues(<<" ", "o">>), c \in RequiredValues(<<"c">>),
        n \in RequiredValues(<<"n", " ">>),
        e \in {Missing, JStr(<<"s", " ">>), JNum},
        g \in {Missing, JTrue, JFalse}}
    \cup {[kind |-> "json", doc |-> d] : d \in {JNone, JNumber, JArr(<<>>), JArr(<<JNumber>>)}}
    \cup {[kind |-> k, doc |-> JNone] : k \in {"absent", "invalid"}}

\* request.get_json(), line 196: the parsed body; a body that is not JSON makes
\* the framework answer 400 itself; without a JSON content type it returns
\* None or answers 415, depending on the framework's version
GetJson(b) ==
    CASE b.kind = "json" -> {[abort |-> 0, data |-> b.doc]}
      [] b.kind = "invalid" -> {[abort |-> 400, data |-> JNone]}
      [] OTHER -> {[abort |-> 0, data |-> JNone], [abort |-> 415, data |-> JNone]}

NoBrief ==
    [oferta |-> <<>>, cliente |-> <<>>, nicho |-> <<>>, estilo_visual |-> <<>>,
     generate_images |-> JNull]

NoResponse == [status |-> 0, payload |-> <<>>]

\* jsonify({"success": False, "error": msg}), status
Failure(status, msg) == [status |-> status, payload |-> [success |-> FALSE, error |-> msg]]

\* what the framework answers when the handler lets an exception escape, or aborts
Unhandled(status, what) == [status |-> status, payload |-> [html |-> what]]

BriefKeys == <<"oferta", "cliente", "nicho", "estilo_visual">>

\* lines 196-218 for one outcome of get_json: the response, or the brief
ValidateBody(gj) ==
    IF gj.abort # 0
    THEN [go |-> FALSE, brief |-> NoBrief,
          response |-> Unhandled(gj.abort, "HTTPException")]
    ELSE IF ~TruthyDoc(gj.data)
    THEN [go |-> FALSE, brief |-> NoBrief,
          response |-> Failure(400, <<"Nenhum dado enviado na requisição">>)]
    ELSE IF gj.data.t # "obj"
    THEN [go |-> FALSE, brief |-> NoBrief,
          response |-> Unhandled(500, "AttributeError")]
    ELSE LET d == gj.data.f
             raw == [k \in {BriefKeys[j] : j \in DOMAIN BriefKeys} |-> Get(d, k, JStr(<<>>))]
         IN IF \E k \in DOMAIN raw : raw[k].t # "str"
            THEN [go |-> FALSE, brief |-> NoBrief,
                  response |-> Unhandled(500, "AttributeError")]
            ELSE LET b == [oferta |-> Strip(raw.oferta.s), cliente |-> Strip(raw.cliente.s),
                           nicho |-> Strip(raw.nicho.s),
                           estilo_visual |-> Strip(raw.estilo_visual.s),
                           generate_images |-> Get(d, "generate_images", JTrue)]
                 IN IF Len(b.oferta) = 0
                    THEN [go |-> FALSE, brief |-> b,
                          response |-> Failure(400, <<"O campo 'oferta' é obrigatório">>)]
                    ELSE IF Len(b.cliente) = 0
                    THEN [go |-> FALSE, brief |-> b,
                          response |-> Failure(400, <<"O campo 'cliente' é obrigatório">>)]
                    ELSE IF Len(b.nicho) = 0
                    THEN [go |-> FALSE, brief |-> b,
                          response |-> Failure(400, <<"O campo 'nicho' é obrigatório">>)]
                    ELSE [go |-> TRUE, brief |-> b, response |-> NoResponse]

\* line 190-194: the answer when OPENAI_API_KEY is not set
KeyMissing ==
    [go |-> FALSE, brief |-> NoBrief,
     response |-> Failure(500, <<"API Key da OpenAI não configurada. Verifique o arquivo .env">>)]

\* the credential looked at only once the body has passed
ValidateRequestBodyFirst(key, gj) ==
    LET v == ValidateBody(gj)
    IN IF ~v.go THEN v ELSE IF ~key THEN KeyMissing ELSE v

\* lines 190-218: the credential first, then the body
ValidateRequest(key, gj) == IF ~key THEN KeyMissing ELSE ValidateBody(gj)

\* every draft sent to the image stage, whatever generate_images says
AlwaysImages(generate_images) == "images"

\* line 225: the branch taken after the copy stage
NextStage(generate_images) == IF Truthy(generate_images) THEN "images" ELSE "noimages"

\* the image model called for every draft, empty prompt or not
AlwaysCall(image_prompt) == TRUE

\* line 228: whether the image model is called for a draft
ShouldCall(image_prompt) == Truthy(image_prompt)

(***************************************************************************)
(* What the text model may answer.                                         *)
(***************************************************************************)
SeqsUpTo(S, n) == UNION {[1..k -> S] : k \in 0..n}

\* the text of a JSON array of the given literals
ArrayText(l) ==
    <<"[">> \o [k \in 1..(2 * Len(l) - 1) |-> IF k % 2 = 1 THEN l[(k + 1) \div 2] ELSE ","]
        \o <<"]">>

BareArrays(n) == {ArrayText(l) : l \in SeqsUpTo(LiteralSymbols, n)}

Blanks == {<<>>, <<" ", "\n">>}

\* T inside a markdown fence, with optional whitespace around the markers
Fenced(T) ==
    {a \o open \o b \o T \o c \o Fence \o d :
        a \in Blanks, b \in Blanks, c \in Blanks, d \in Blanks, open \in {Fence, FenceJson}}

Answer(content, inner) == [kind |-> "text", content |-> content, inner |-> inner]

NoAnswer(kind) == [kind |-> kind, content |-> <<>>, inner |-> <<>>]

\* the chat-completion call raises, or returns a text: a JSON array, a fenced
\* one, a JSON document that is no array, prose, an unclosed array, nothing
UpstreamOutcomes ==
    {NoAnswer("error")}
    \cup {Answer(T, T) : T \in BareArrays(MaxAds)}
    \cup {Answer(FenceJson \o <<"\n">> \o T \o <<"\n">> \o Fence, T) : T \in BareArrays(1)}
    \cup {Answer(T, T) : T \in {<<"A">>, <<"E">>, <<"Z">>, <<"x", " ", "y">>, <<"[", "A">>, <<>>}}

FencedOutcomes ==
    UNION {{Answer(F, T) : F \in Fenced(T)} : T \in BareArrays(MaxFenced)}

(***************************************************************************)
(* The handler of POST /generate_ads.                                      *)
(***************************************************************************)
NoDrafts == [raised |-> "pending", msg |-> <<>>, ads |-> <<>>]

Init ==
    /\ apiKey \in BOOLEAN
    /\ body \in Bodies
    /\ pc = "start"
    /\ brief = NoBrief
    /\ upstream = NoAnswer("pending")
    /\ drafts = NoDrafts
    /\ ads = <<>>
    /\ idx = 0
    /\ calls = <<>>
    /\ response = NoResponse

\* lines 190-218
Validate ==
    /\ pc = "start"
    /\ \E gj \in GetJson(body) :
          LET v == ValidateRequest(apiKey, gj)
          IN /\ brief' = v.brief
             /\ response' = v.response
             /\ pc' = IF v.go THEN "copy" ELSE "done"
    /\ UNCHANGED <<apiKey, body, upstream, drafts, ads, idx, calls>>

\* lines 220-222 and 248-251, for one outcome of the chat-completion call
Copy(up) ==
    /\ pc = "copy"
    /\ LET r == generate_ads_with_openai(up)
       IN /\ upstream' = up
          /\ drafts' = r
          /\ calls' = Append(calls,
                 [api |-> "chat", draft |-> 0,
                  prompt |-> UserPrompt(brief.oferta, brief.cliente, brief.nicho,
                                        brief.estilo_visual),
                  ok |-> (up.kind = "text"), url |-> <<>>])
          /\ ads' = r.ads
          /\ idx' = 1
          /\ response' = CASE r.raised = "ValueError" -> Failure(422, r.msg)
                           [] r.raised = "Exception" -> Failure(500, r.msg)
                           [] OTHER -> response
          /\ pc' = IF r.raised # "none" THEN "done"
                   ELSE NextStage(brief.generate_images)
    /\ UNCHANGED <<apiKey, body, brief>>

GenerateCopy == \E up \in UpstreamOutcomes : Copy(up)

\* lines 226-235: one iteration of the loop over the drafts
ImageIteration ==
    /\ pc = "images"
    /\ idx <= Len(ads)
    /\ LET ad == ads[idx]
           image_prompt == Get(ad, "image_prompt", JStr(<<>>))
           called == ShouldCall(image_prompt)
       IN \E o \in (IF called THEN ImageOutcomes ELSE {[ok |-> FALSE, url |-> <<>>]}) :
             LET image_url == IF called THEN generate_image_with_dalle(o) ELSE None
             IN /\ calls' = IF called
                            THEN Append(calls,
                                   [api |-> "image", draft |-> idx,
                                    prompt |-> FullPrompt(image_prompt.s, brief.estilo_visual),
                                    ok |-> o.ok, url |-> o.url])
                            ELSE calls
                /\ ads' = [ads EXCEPT ![idx] = Del(Put(ad, "image_url", image_url), "image_prompt")]
    /\ idx' = idx + 1
    /\ UNCHANGED <<apiKey, body, pc, brief, upstream, drafts, response>>

\* lines 236-241
NoImages ==
    /\ pc = "noimages"
    /\ ads' = [k \in DOMAIN ads |-> Put(Del(ads[k], "image_prompt"), "image_url", None)]
    /\ pc' = "respond"
    /\ UNCHANGED <<apiKey, body, brief, upstream, drafts, idx, calls, response>>

\* lines 243-246
Respond ==
    /\ IF pc = "images" THEN idx > Len(ads) ELSE pc = "respond"
    /\ response' = [status |-> 200, payload |-> [success |-> TRUE, data |-> ads]]
    /\ pc' = "done"
    /\ UNCHANGED <<apiKey, body, brief, upstream, drafts, ads, idx, calls>>

Next == Validate \/ GenerateCopy \/ ImageIteration \/ NoImages \/ Respond

Spec == Init /\ [][Next]_vars

(***************************************************************************)
(* The copy generator on fenced answers: a valid request that asks for no  *)
(* images, answered by a JSON array inside a markdown fence.               *)
(***************************************************************************)
FencedBody ==
    [kind |-> "json",
     doc |-> BodyObject(JStr(<<"o">>), JStr(<<"c">>), JStr(<<"n">>), Missing, JFalse)]

InitFenced ==
    /\ apiKey = TRUE
    /\ body = FencedBody
    /\ pc = "start"
    /\ brief = NoBrief
    /\ upstream = NoAnswer("pending")
    /\ drafts = NoDrafts
    /\ ads = <<>>
    /\ idx = 0
    /\ calls = <<>>
    /\ response = NoResponse

GenerateCopyFenced == \E up \in FencedOutcomes : Copy(up)

NextFenced == Validate \/ GenerateCopyFenced \/ NoImages \/ Respond

SpecFenced == InitFenced /\ [][NextFenced]_vars


(***************************************************************************)
(* Properties.                                                             *)
(***************************************************************************)
Done == pc = "done"

Ok200 == Done /\ response.status = 200

Data == response.payload.data

CopySucceeded == drafts.raised = "none"

IsImageCall(c) == c.api = "image"

IsChatCall(c) == c.api = "chat"

ImageCalls == SelectSeq(calls, IsImageCall)

\* the document the upstream text holds
UpstreamDoc == json_loads(RemoveFence(upstream.content)).doc

TextKeys == {"titulo", "descricao", "cta"}

\* C1: in every 200 response every returned ad has titulo, descricao and cta
\* present as text of at most 40, 250 and 20 characters, and a key the upstream
\* element lacked is the empty string.
C1_TextWithinLimits ==
    Ok200 =>
        \A i \in DOMAIN Data : \A key \in TextKeys :
            /\ key \in DOMAIN Data[i]
            /\ Data[i][key].t = "str"
            /\ Len(Data[i][key].s) <= CHAR_LIMITS[key]
            /\ (UpstreamDoc.t = "arr" /\ key \notin DOMAIN UpstreamDoc.items[i].f)
                  => Data[i][key] = JStr(<<>>)

\* C2: once the copy stage has succeeded with generate_images true, no failure
\* of an image call aborts the request: the response is 200 with success true,
\* a draft whose call failed has image_url null, and every draft with a
\* non-empty image prompt has exactly one call and holds what it returned.
C2_ImageFailureIsolated ==
    (CopySucceeded /\ Truthy(brief.generate_images)) =>
        /\ response.status \in {0, 200}
        /\ Done => /\ response.payload.success = TRUE
                   /\ Len(Data) = Len(drafts.ads)
                   /\ \A i \in DOMAIN drafts.ads :
                         Truthy(drafts.ads[i].image_prompt) =>
                            /\ Cardinality({k \in DOMAIN ImageCalls : ImageCalls[k].draft = i}) = 1
                            /\ \A k \in DOMAIN ImageCalls :
                                  ImageCalls[k].draft = i =>
                                     Data[i].image_url =
                                        IF ImageCalls[k].ok THEN JStr(ImageCalls[k].url) ELSE None

C2_Witness ==
    /\ Ok200 /\ Truthy(brief.generate_images)
    /\ \E j, k \in DOMAIN ImageCalls :
          /\ ~ImageCalls[j].ok /\ ImageCalls[k].ok /\ j < k
          /\ Data[ImageCalls[j].draft].image_url = None
          /\ Data[ImageCalls[k].draft].image_url = JStr(<<"u">>)

\* C3: with generate_images false and the copy stage succeeded, the image model
\* is never called and every returned ad has image_url null.
C3_NoImagesWhenDisabled ==
    (CopySucceeded /\ brief.generate_images = JFalse) =>
        /\ ImageCalls = <<>>
        /\ Done => /\ response.status = 200
                   /\ Len(Data) = Len(drafts.ads)
                   /\ \A i \in DOMAIN Data : Data[i].image_url = None

C3_Witness ==
    /\ Ok200 /\ brief.generate_images = JFalse
    /\ Len(Data) >= 2
    /\ \E i \in DOMAIN drafts.ads : Truthy(drafts.ads[i].image_prompt)

\* a required field of the body is missing, or empty once trimmed
Blank(s) == \A k \in DOMAIN s : s[k] \in Whitespace

FieldBlank(d, key) == key \notin DOMAIN d \/ (d[key].t = "str" /\ Blank(d[key].s))

RequiredKeys == <<"oferta", "cliente", "nicho">>

FieldMessage ==
    [oferta |-> <<"O campo 'oferta' é obrigatório">>,
     cliente |-> <<"O campo 'cliente' é obrigatório">>,
     nicho |-> <<"O campo 'nicho' é obrigatório">>]

ObjectBody == body.kind = "json" /\ body.doc.t = "obj"

\* the body is a non-empty object whose oferta, cliente, nicho and
\* estilo_visual, where given, are text
TextBody ==
    /\ ObjectBody
    /\ DOMAIN body.doc.f # {}
    /\ \A j \in DOMAIN BriefKeys :
          BriefKeys[j] \in DOMAIN body.doc.f => body.doc.f[BriefKeys[j]].t = "str"

\* C4 as stated: with the credential configured and a body present (here even
\* a well-typed one), a missing or empty cliente (likewise oferta, nicho) is
\* answered 400 with that field's own message, and no upstream call is made.
C4_OwnMessage ==
    (Done /\ apiKey /\ TextBody) =>
        \A j \in DOMAIN RequiredKeys :
            FieldBlank(body.doc.f, RequiredKeys[j]) =>
                /\ response = Failure(400, FieldMessage[RequiredKeys[j]])
                /\ calls = <<>>

\* C4 amended: with the credential configured and a JSON object as body, when
\* any of oferta, cliente, nicho is missing or empty once trimmed, no upstream
\* call is made and the response is 400 with the message of the first such
\* field in the order oferta, cliente, nicho; except that the empty object is
\* answered 400 with the no-data message, and a non-text value under oferta,
\* cliente, nicho or estilo_visual makes the handler raise before any check.
C4_FirstBlankField ==
    (Done /\ apiKey /\ ObjectBody
          /\ \E j \in DOMAIN RequiredKeys : FieldBlank(body.doc.f, RequiredKeys[j])) =>
        LET d == body.doc.f
            blanks == {j \in DOMAIN RequiredKeys : FieldBlank(d, RequiredKeys[j])}
            first == CHOOSE j \in blanks : \A m \in blanks : j <= m
        IN /\ calls = <<>>
           /\ response =
                IF DOMAIN d = {}
                THEN Failure(400, <<"Nenhum dado enviado na requisição">>)
                ELSE IF \E j \in DOMAIN BriefKeys :
                           BriefKeys[j] \in DOMAIN d /\ d[BriefKeys[j]].t # "str"
                THEN Unhandled(500, "AttributeError")
                ELSE Failure(400, FieldMessage[RequiredKeys[first]])

C4_Witness ==
    /\ Done /\ apiKey /\ ObjectBody
    /\ "cliente" \notin DOMAIN body.doc.f
    /\ "nicho" \notin DOMAIN body.doc.f
    /\ ~FieldBlank(body.doc.f, "oferta")
    /\ response = Failure(400, FieldMessage.cliente)

\* C5: a text-stage answer that is not JSON, or is JSON of the wrong structure
\* (not an array of objects), ends the request with 422 and a failure object;
\* every other failure of the generation ends it with 500.
WellStructured(doc) == doc.t = "arr" /\ \A i \in DOMAIN doc.items : doc.items[i].t = "obj"

C5_StatusMapping ==
    (Done /\ upstream.kind # "pending") =>
        LET parsed == json_loads(RemoveFence(upstream.content))
        IN IF upstream.kind = "text" /\ (~parsed.ok \/ ~WellStructured(parsed.doc))
           THEN /\ response.status = 422
                /\ DOMAIN response.payload = {"success", "error"}
                /\ response.payload.success = FALSE
           ELSE response.status # 200 =>
                   /\ response.status = 500
                   /\ DOMAIN response.payload = {"success", "error"}
                   /\ response.payload.success = FALSE

\* C6: every answer other than 200, whatever the body, is an object with
\* success false and an error text and no data; no exception escapes.
C6_StructuredFailure ==
    (Done /\ response.status # 200) =>
        /\ DOMAIN response.payload = {"success", "error"}
        /\ response.payload.success = FALSE

\* C7: without the credential every request is answered 500 with the
\* key-not-configured message, before the body is read, and neither the text
\* model nor the image model is called.
C7_KeyCheckedFirst ==
    ~apiKey =>
        /\ calls = <<>>
        /\ brief = NoBrief
        /\ pc \in {"start", "done"}
        /\ Done => response =
              Failure(500, <<"API Key da OpenAI não configurada. Verifique o arquivo .env">>)

C7_Witness ==
    /\ ~apiKey /\ Done
    /\ ObjectBody
    /\ \A j \in DOMAIN RequiredKeys : ~FieldBlank(body.doc.f, RequiredKeys[j])
    /\ response.status = 500

C7_WitnessInvalid == ~apiKey /\ Done /\ body.kind = "invalid" /\ response.status = 500

\* C8: a well-formed JSON array inside a markdown fence, tagged json or not,
\* with optional whitespace around the markers, is parsed, and the copy
\* generator returns for it what it returns for the bare array.
C8_FenceTolerated ==
    (upstream.kind = "text" /\ upstream.content # upstream.inner) =>
        /\ drafts.raised # "ValueError"
        /\ drafts = generate_ads_with_openai(Answer(upstream.inner, upstream.inner))

C8_Witness ==
    /\ upstream.kind = "text"
    /\ StartsWith(upstream.content, <<" ", "\n">> \o FenceJson \o <<" ", "\n", "[">>)
    /\ CopySucceeded
    /\ Len(drafts.ads) = 2
    /\ drafts.ads[2].titulo = JStr(Rep("T", CHAR_LIMITS.titulo))

\* C9: the text model is called at most once; an image call happens only
\* after the text call returned and the copy stage succeeded; with
\* generate_images true the drafts reached so far that have a non-empty image
\* prompt were each called for exactly once, in draft order, and a draft with
\* an empty prompt got image_url null without a call.
HasPrompt(i) == Truthy(drafts.ads[i].image_prompt)

DraftOf(c) == c.draft

C9_CallOrder ==
    /\ Cardinality({k \in DOMAIN calls : IsChatCall(calls[k])}) <= 1
    /\ \A k \in DOMAIN calls :
          IsImageCall(calls[k]) =>
             /\ k > 1 /\ IsChatCall(calls[1]) /\ calls[1].ok
             /\ CopySucceeded
             /\ calls[k].prompt =
                   FullPrompt(drafts.ads[calls[k].draft].image_prompt.s, brief.estilo_visual)
    /\ ~CopySucceeded => ImageCalls = <<>>
    /\ (CopySucceeded /\ Truthy(brief.generate_images)) =>
          /\ [k \in DOMAIN ImageCalls |-> ImageCalls[k].draft]
                = SelectSeq([i \in 1..(idx - 1) |-> i], HasPrompt)
          /\ \A i \in 1..(idx - 1) : ~HasPrompt(i) => ads[i].image_url = None
          /\ Done => idx = Len(drafts.ads) + 1 /\ Data = ads

C9_Witness ==
    /\ Ok200 /\ Truthy(brief.generate_images)
    /\ Len(drafts.ads) = 3
    /\ ~HasPrompt(2) /\ HasPrompt(1) /\ HasPrompt(3)
    /\ Len(ImageCalls) = 2
    /\ ImageCalls[1].draft = 1 /\ ImageCalls[2].draft = 3

\* C10: a 200 response holds one ad per element of the upstream array, in
\* order, however many there are, and every ad has image_url (text or null)
\* and no image_prompt, with or without images.
C10_ResultShape ==
    (Ok200 /\ UpstreamDoc.t = "arr") =>
        /\ Len(Data) = Len(UpstreamDoc.items)
        /\ \A i \in DOMAIN Data :
              /\ DOMAIN Data[i] = TextKeys \cup {"image_url"}
              /\ Data[i].image_url.t \in {"str", "null"}
              /\ \A key \in TextKeys :
                    Data[i][key] =
                       Slice(Get(UpstreamDoc.items[i].f, key, JStr(<<>>)), CHAR_LIMITS[key])

C10_Witness ==
    /\ Ok200 /\ UpstreamDoc.t = "arr"
    /\ Len(Data) >= 3
    /\ Data[1].titulo # Data[2].titulo
    /\ Data[1].image_url # Data[2].image_url

====
